---- MODULE Spec2Model ----
(***************************************************************************)
(* Relay pool of nostr-sdk (crates/nostr-sdk/src/relay/pool.rs): the       *)
(* aggregator task (RelayPoolTask), its seen-event cache, the bounded      *)
(* channel that feeds it, the notification bus, the relay registry and the *)
(* fan-out operations of RelayPool.                                        *)
(***************************************************************************)
EXTENDS Integers, Sequences, FiniteSets, TLC

(***************************************************************************)
(* Bounds of the model.                                                    *)
(***************************************************************************)
\* opts.task_max_seen_events ranges over 0..MaxCap
MaxCap == 2
\* opts.task_channel_size
ChanSize == 1
\* notification-producing messages (relay frames, status changes, Stop,
\* Shutdown) put into the channel over one run
MaxMsgs == 2

\* the relays the application registers: two, the least number that tells the
\* first relay to deliver an event from the second
URLs == {"wss://a", "wss://b"}
NoUrl == "none"
\* event IDs: one more than the largest cache holds, so that a full cache evicts
IDs == 1..(MaxCap + 1)
\* a value that is no event ID
NoId == MaxCap + 2
\* the IDs of the events that travel between the pool and its relays
WireIDs == {1, 2}
Roles == {"Read", "Write", "ReadWrite"}
NoRole == "none"
\* the handles of the pool: the pool and one clone of it
Handles == {"pool", "clone"}
\* the filter sets an application subscribes with
FilterSets == {"F1", "F2"}
\* filters: Vec::new()
NoFilters == "empty"

VARIABLES
    max_seen_events, \* RelayPoolTask.max_seen_events
    events,          \* RelayPoolTask.events: VecDeque<EventId>
    channel,         \* the mpsc channel pool_task_sender -> receiver
    closed,          \* receiver.close() was called
    running,         \* RelayPoolTask.running
    tasks,           \* aggregator tasks spawned by run() and not yet exited
    spinning,        \* the aggregator is inside a pop_front loop that never ends
    bus,             \* every notification sent on notification_sender, in order
    budget,          \* notification-producing messages still to be enqueued
    shutdownTasks,   \* detached shutdown tasks sleeping before send(Shutdown)
    relays,          \* RelayPool.relays: url -> role, NoRole when absent
    call,            \* the fan-out call in progress (or the last one returned)
    verdict,         \* history: the add_event call that returned last
    age,             \* history: IDs pushed since each ID was last pushed
    origin,          \* history: the relay whose frame pushed each ID last
    published,       \* history: IDs whose BatchEvent marker was enqueued
    starting,        \* run() calls that read running = false and did not spawn yet
    phase,           \* history: the last lifecycle call that returned
    filters,         \* RelayPool.filters
    given,           \* per relay, the filters last handed to it under the pool's id
    connPc,          \* per relay, the position of a connect_relay call on it
    connRead,        \* per relay, the filters that connect_relay call read
    shutdown_on_drop, \* opts.shutdown_on_drop
    dropped,         \* RelayPool.dropped
    dropPc,          \* per handle of the pool, the position of its drop
    dropTasks,       \* history: shutdown tasks detached by drop
    gift             \* a NIP-59 gift wrap being built and opened

vars == <<max_seen_events, events, channel, closed, running, tasks, spinning,
          bus, budget, shutdownTasks, relays, call, verdict, age, origin,
          published, starting, phase, filters, given, connPc, connRead,
          shutdown_on_drop, dropped, dropPc, dropTasks, gift>>

\* the variables of the lifecycle history, of the subscription and of drop
lifeVars == <<starting, phase>>
subVars == <<filters, given, connPc, connRead>>
dropVars == <<shutdown_on_drop, dropped, dropPc, dropTasks>>
\* the aggregator, its channel and cache, the bus and the fan-out call
coreVars == <<max_seen_events, events, channel, closed, running, tasks,
              spinning, bus, budget, shutdownTasks, call, verdict, age, origin,
              published>>

(***************************************************************************)
(* Data.                                                                   *)
(***************************************************************************)
Range(s) == {s[i] : i \in 1..Len(s)}

Min(a, b) == IF a < b THEN a ELSE b

\* RawRelayMessage::Event carries the event as JSON: what the checks of
\* handle_relay_message will find in it is fixed when the frame is built.
RawEvent(i, s, x, k) ==
    [kind |-> "Event", id |-> i, sig |-> s, exp |-> x, idok |-> k]

\* any other RawRelayMessage (a NOTICE)
RawNotice ==
    [kind |-> "Notice", id |-> NoId, sig |-> TRUE, exp |-> FALSE, idok |-> TRUE]

NoRaw == [kind |-> "None", id |-> NoId, sig |-> TRUE, exp |-> FALSE, idok |-> TRUE]

\* the frames a relay delivers: a sound event, or one with a single defect
RawMessages ==
    {RawEvent(i, TRUE, FALSE, TRUE) : i \in WireIDs}
      \cup {RawEvent(i, FALSE, FALSE, TRUE) : i \in WireIDs}
      \cup {RawEvent(i, TRUE, TRUE, TRUE) : i \in WireIDs}
      \cup {RawEvent(i, TRUE, FALSE, FALSE) : i \in WireIDs}
      \cup {RawNotice}

\* RelayPoolMessage; echo is history: the BatchEvent marker of the frame's
\* event ID had entered the channel before the frame did
ReceivedMsg(u, raw, e) ==
    [type |-> "ReceivedMsg", url |-> u, raw |-> raw, ids |-> <<>>, echo |-> e]
BatchEvent(ids) ==
    [type |-> "BatchEvent", url |-> NoUrl, raw |-> NoRaw, ids |-> ids, echo |-> FALSE]
RelayStatusMsg(u) ==
    [type |-> "RelayStatus", url |-> u, raw |-> NoRaw, ids |-> <<>>, echo |-> FALSE]
StopMsg ==
    [type |-> "Stop", url |-> NoUrl, raw |-> NoRaw, ids |-> <<>>, echo |-> FALSE]
ShutdownMsg ==
    [type |-> "Shutdown", url |-> NoUrl, raw |-> NoRaw, ids |-> <<>>, echo |-> FALSE]

\* RelayPoolNotification
NEvent(u, i) == [type |-> "Event", url |-> u, kind |-> "Event", id |-> i]
NMessage(u, k, i) == [type |-> "Message", url |-> u, kind |-> k, id |-> i]
NRelayStatus(u) == [type |-> "RelayStatus", url |-> u, kind |-> "None", id |-> NoId]
NStop == [type |-> "Stop", url |-> NoUrl, kind |-> "None", id |-> NoId]
NShutdown == [type |-> "Shutdown", url |-> NoUrl, kind |-> "None", id |-> NoId]

(***************************************************************************)
(* The seen-event cache.                                                   *)
(***************************************************************************)
\* while events.len() >= self.max_seen_events { events.pop_front(); }
\* with a strict comparison: the cache would grow one past its capacity
RECURSIVE PopLoopStrict(_, _)
PopLoopStrict(q, cap) ==
    IF Len(q) > cap
    THEN IF q = <<>>
         THEN [q |-> q, spin |-> TRUE]
         ELSE PopLoopStrict(Tail(q), cap)
    ELSE [q |-> q, spin |-> FALSE]

\* while events.len() >= self.max_seen_events { events.pop_front(); }
\* pop_front on an empty deque returns None and changes nothing, so the loop
\* never ends when the deque is empty and the condition still holds.
RECURSIVE PopLoop(_, _)
PopLoop(q, cap) ==
    IF Len(q) >= cap
    THEN IF q = <<>>
         THEN [q |-> q, spin |-> TRUE]
         ELSE PopLoop(Tail(q), cap)
    ELSE [q |-> q, spin |-> FALSE]

\* add_event that moves an ID it already holds to the back (an LRU refresh)
AddEventRefresh(q, id, cap) ==
    IF id \in Range(q)
    THEN [events |-> Append(SelectSeq(q, LAMBDA x : x # id), id),
          admitted |-> FALSE, spin |-> FALSE]
    ELSE LET p == PopLoop(q, cap)
         IN IF p.spin
            THEN [events |-> p.q, admitted |-> FALSE, spin |-> TRUE]
            ELSE [events |-> Append(p.q, id), admitted |-> TRUE, spin |-> FALSE]

\* add_event without the membership test
AddEventAlways(q, id, cap) ==
    LET p == PopLoop(q, cap)
    IN IF p.spin
       THEN [events |-> p.q, admitted |-> FALSE, spin |-> TRUE]
       ELSE [events |-> Append(p.q, id), admitted |-> TRUE, spin |-> FALSE]

\* RelayPoolTask::add_event
AddEvent(q, id, cap) ==
    IF id \in Range(q)
    THEN [events |-> q, admitted |-> FALSE, spin |-> FALSE]
    ELSE LET p == PopLoop(q, cap)
         IN IF p.spin
            THEN [events |-> p.q, admitted |-> FALSE, spin |-> TRUE]
            ELSE [events |-> Append(p.q, id), admitted |-> TRUE, spin |-> FALSE]

\* RelayPoolTask::add_events: the loop body repeats add_event's code; pushed
\* lists the IDs it pushed, in order (the code returns nothing).
RECURSIVE AddEventsFrom(_, _, _, _)
AddEventsFrom(q, ids, cap, pushed) ==
    IF ids = <<>>
    THEN [events |-> q, pushed |-> pushed, spin |-> FALSE]
    ELSE IF Head(ids) \notin Range(q)
         THEN LET p == PopLoop(q, cap)
              IN IF p.spin
                 THEN [events |-> p.q, pushed |-> pushed, spin |-> TRUE]
                 ELSE AddEventsFrom(Append(p.q, Head(ids)), Tail(ids), cap,
                                    Append(pushed, Head(ids)))
         ELSE AddEventsFrom(q, Tail(ids), cap, pushed)

\* add_events that goes through the batch from its last ID to its first
AddEventsReversed(q, ids, cap) ==
    IF ids # <<>>
    THEN AddEventsFrom(q, [k \in 1..Len(ids) |-> ids[Len(ids) + 1 - k]], cap, <<>>)
    ELSE [events |-> q, pushed |-> <<>>, spin |-> FALSE]

AddEvents(q, ids, cap) ==
    IF ids # <<>>
    THEN AddEventsFrom(q, ids, cap, <<>>)
    ELSE [events |-> q, pushed |-> <<>>, spin |-> FALSE]

\* History kept beside events.push_back: age[i] is the number of IDs pushed
\* after i was last pushed (capped at MaxCap + 1), -1 when i was not pushed
\* since the cache was created or cleared.
Aged(a, id) ==
    [i \in IDs |-> IF i = id THEN 0
                   ELSE IF a[i] = -1 THEN -1
                   ELSE Min(a[i] + 1, MaxCap + 1)]

RECURSIVE AgedAll(_, _)
AgedAll(a, ids) ==
    IF ids = <<>> THEN a ELSE AgedAll(Aged(a, Head(ids)), Tail(ids))

NoAge == [i \in IDs |-> -1]
NoOrigin == [i \in IDs |-> NoUrl]
NoVerdict == [id |-> NoId, admitted |-> FALSE]

\* a call of add_event for a frame of relay u (NoUrl: no frame), with the
\* history it leaves; a call that never returns leaves no verdict
AddEventOp(u, id) ==
    LET a == AddEvent(events, id, max_seen_events)
    IN /\ events' = a.events
       /\ spinning' = a.spin
       /\ age' = IF a.admitted THEN Aged(age, id) ELSE age
       /\ origin' = IF a.admitted THEN [origin EXCEPT ![id] = u] ELSE origin
       /\ verdict' = IF a.spin THEN NoVerdict ELSE [id |-> id, admitted |-> a.admitted]

\* a call of add_events, with the history it leaves
AddEventsOp(ids) ==
    LET a == AddEvents(events, ids, max_seen_events)
    IN /\ events' = a.events
       /\ spinning' = a.spin
       /\ age' = AgedAll(age, a.pushed)
       /\ origin' = [i \in IDs |-> IF i \in Range(a.pushed) THEN NoUrl ELSE origin[i]]
       /\ verdict' = NoVerdict

\* RelayPoolTask::clear_already_seen_events
ClearOp ==
    /\ events' = <<>>
    /\ age' = NoAge
    /\ origin' = NoOrigin
    /\ verdict' = NoVerdict
    /\ UNCHANGED spinning

(***************************************************************************)
(* The aggregator task.                                                    *)
(***************************************************************************)
\* handle_relay_message without the expiration check
handle_relay_message_noexp(raw) ==
    IF raw.kind = "Event"
    THEN IF ~raw.sig THEN [ok |-> FALSE, err |-> "Event"]
         ELSE IF ~raw.idok THEN [ok |-> FALSE, err |-> "Event"]
         ELSE [ok |-> TRUE, err |-> "none"]
    ELSE [ok |-> TRUE, err |-> "none"]

\* RelayPoolTask::handle_relay_message
handle_relay_message(raw) ==
    IF raw.kind = "Event"
    THEN IF ~raw.sig THEN [ok |-> FALSE, err |-> "Event"]
         ELSE IF raw.exp THEN [ok |-> FALSE, err |-> "EventExpired"]
         ELSE IF ~raw.idok THEN [ok |-> FALSE, err |-> "Event"]
         ELSE [ok |-> TRUE, err |-> "none"]
    ELSE [ok |-> TRUE, err |-> "none"]

\* notifications that include the Event whatever add_event returned
EventNotificationsAlways(u, id, admitted) ==
    <<NMessage(u, "Event", id), NEvent(u, id)>>

\* notifications where an admitted event gets its Event notification alone
EventNotificationsBare(u, id, admitted) ==
    IF admitted THEN <<NEvent(u, id)>> ELSE <<NMessage(u, "Event", id)>>

\* notifications with the Event ahead of the Message
EventNotificationsEventFirst(u, id, admitted) ==
    (IF admitted THEN <<NEvent(u, id)>> ELSE <<>>)
        \o <<NMessage(u, "Event", id)>>

\* the notifications sent for a handled event frame, add_event having
\* returned admitted
EventNotifications(u, id, admitted) ==
    <<NMessage(u, "Event", id)>>
        \o (IF admitted THEN <<NEvent(u, id)>> ELSE <<>>)

\* RelayPoolMessage::ReceivedMsg arm of run()
OnReceivedMsg(m) ==
    LET r == handle_relay_message(m.raw)
    IN /\ UNCHANGED <<closed, running, tasks>>
       /\ IF ~r.ok
          THEN UNCHANGED <<events, spinning, age, origin, verdict, bus>>
          ELSE IF m.raw.kind = "Event"
          THEN /\ AddEventOp(m.url, m.raw.id)
               /\ bus' = bus \o EventNotifications(m.url, m.raw.id, verdict'.admitted)
          ELSE /\ bus' = Append(bus, NMessage(m.url, m.raw.kind, NoId))
               /\ UNCHANGED <<events, spinning, age, origin, verdict>>

\* RelayPoolMessage::BatchEvent arm of run()
OnBatchEvent(m) ==
    /\ AddEventsOp(m.ids)
    /\ UNCHANGED <<closed, running, tasks, bus>>

\* RelayPoolMessage::RelayStatus arm of run()
OnRelayStatus(m) ==
    /\ bus' = Append(bus, NRelayStatus(m.url))
    /\ UNCHANGED <<closed, running, tasks, events, spinning, age, origin, verdict>>

\* RelayPoolMessage::Stop arm of run(): break, the task ends
OnStop ==
    /\ running' = FALSE
    /\ bus' = Append(bus, NStop)
    /\ tasks' = tasks - 1
    /\ UNCHANGED <<closed, events, spinning, age, origin, verdict>>

\* RelayPoolMessage::Shutdown arm of run(): close, break, the task ends
OnShutdown ==
    /\ running' = FALSE
    /\ closed' = TRUE
    /\ bus' = Append(bus, NShutdown)
    /\ tasks' = tasks - 1
    /\ UNCHANGED <<events, spinning, age, origin, verdict>>

\* One iteration of `while let Some(msg) = receiver.recv().await`, run by the
\* task that holds the receiver's lock.
AggStep ==
    /\ tasks > 0
    /\ ~spinning
    /\ channel # <<>>
    /\ channel' = Tail(channel)
    /\ LET m == Head(channel)
       IN CASE m.type = "ReceivedMsg" -> OnReceivedMsg(m)
            [] m.type = "BatchEvent" -> OnBatchEvent(m)
            [] m.type = "RelayStatus" -> OnRelayStatus(m)
            [] m.type = "Stop" -> OnStop
            [] m.type = "Shutdown" -> OnShutdown
    /\ UNCHANGED <<max_seen_events, budget, shutdownTasks, relays, call, published,
                   lifeVars, subVars, dropVars, gift>>

\* recv() returns None once the channel is closed and drained: the loop ends
\* and the task exits, leaving the running flag as it is.
AggExit ==
    /\ tasks > 0
    /\ ~spinning
    /\ channel = <<>>
    /\ closed
    /\ tasks' = tasks - 1
    /\ UNCHANGED <<max_seen_events, events, channel, closed, running, spinning,
                   bus, budget, shutdownTasks, relays, call, verdict, age,
                   origin, published,
                   lifeVars, subVars, dropVars, gift>>

(***************************************************************************)
(* Relay drivers: producers of the channel.                                *)
(***************************************************************************)
\* A registered relay forwards a frame it received: ReceivedMsg enters the
\* channel when there is room.
Deliver(u, raw) ==
    /\ relays[u] # NoRole
    /\ budget > 0
    /\ ~closed
    /\ Len(channel) < ChanSize
    /\ channel' = Append(channel, ReceivedMsg(u, raw, raw.id \in published))
    /\ budget' = budget - 1
    /\ UNCHANGED <<max_seen_events, events, closed, running, tasks, spinning,
                   bus, shutdownTasks, relays, call, verdict, age, origin,
                   published,
                   lifeVars, subVars, dropVars, gift>>

\* A registered relay reports a status change.
StatusChange(u) ==
    /\ relays[u] # NoRole
    /\ budget > 0
    /\ ~closed
    /\ Len(channel) < ChanSize
    /\ channel' = Append(channel, RelayStatusMsg(u))
    /\ budget' = budget - 1
    /\ UNCHANGED <<max_seen_events, events, closed, running, tasks, spinning,
                   bus, shutdownTasks, relays, call, verdict, age, origin,
                   published,
                   lifeVars, subVars, dropVars, gift>>

(***************************************************************************)
(* Lifecycle.                                                              *)
(***************************************************************************)
\* what a returned start leaves in the history: it answers a stop
Restarted(ph) == IF ph = "stopCalled" THEN "restarted" ELSE ph

\* RelayPoolTask::run, called by RelayPool::start on any handle of the pool:
\* the test `if self.is_running()`. The flag is read here and written in the
\* else branch, so another call can read it in between.
Start ==
    /\ starting < Cardinality(Handles)
    /\ IF running
       THEN /\ phase' = Restarted(phase)
            /\ UNCHANGED starting
       ELSE /\ starting' = starting + 1
            /\ UNCHANGED phase
    /\ UNCHANGED <<max_seen_events, events, channel, closed, running, tasks,
                   spinning, bus, budget, shutdownTasks, relays, call, verdict,
                   age, origin, published, subVars, dropVars, gift>>

\* the else branch of run(): set_running_to(true) and thread::spawn
StartSpawn ==
    /\ starting > 0
    /\ starting' = starting - 1
    /\ running' = TRUE
    /\ tasks' = tasks + 1
    /\ phase' = Restarted(phase)
    /\ UNCHANGED <<max_seen_events, events, channel, closed, spinning, bus,
                   budget, shutdownTasks, relays, call, verdict, age, origin,
                   published, subVars, dropVars, gift>>

\* RelayPool::stop: try_send(Stop) fails when the channel is full or closed,
\* which is logged and nothing else
Stop ==
    /\ budget > 0
    /\ IF ~closed /\ Len(channel) < ChanSize
       THEN /\ channel' = Append(channel, StopMsg)
            /\ budget' = budget - 1
       ELSE UNCHANGED <<channel, budget>>
    /\ phase' = IF phase # "shutdown" /\ running THEN "stopCalled" ELSE phase
    /\ UNCHANGED <<max_seen_events, events, closed, running, tasks, spinning,
                   bus, shutdownTasks, relays, call, verdict, age, origin,
                   published,
                   starting, subVars, dropVars, gift>>

\* RelayPool::shutdown: after disconnect, a detached task is spawned that
\* sleeps and then sends Shutdown
Shutdown ==
    /\ budget > 0
    /\ budget' = budget - 1
    /\ shutdownTasks' = shutdownTasks + 1
    /\ phase' = "shutdown"
    /\ UNCHANGED <<max_seen_events, events, channel, closed, running, tasks,
                   spinning, bus, relays, call, verdict, age, origin,
                   published,
                   starting, subVars, dropVars, gift>>

\* Drop::drop takes its else branch: shutdown_on_drop is set and
\* dropped.load() gives false
DropFires == shutdown_on_drop /\ ~dropped

\* the detached task of shutdown: pool_task_sender.send(Shutdown).await waits
\* for room in the channel and fails when the receiver is closed. The task
\* owns the pool value shutdown(self) was called on, so that value is dropped
\* when the task ends: Drop::drop runs, and when it takes its else branch
\* it sets the flag and detaches a task running shutdown() once more.
ShutdownSend ==
    /\ shutdownTasks > 0
    /\ closed \/ Len(channel) < ChanSize
    /\ channel' = IF closed THEN channel ELSE Append(channel, ShutdownMsg)
    /\ IF DropFires
       THEN /\ dropped' = TRUE
            /\ dropTasks' = dropTasks + 1
            /\ UNCHANGED shutdownTasks
       ELSE /\ shutdownTasks' = shutdownTasks - 1
            /\ UNCHANGED <<dropped, dropTasks>>
    /\ UNCHANGED <<max_seen_events, events, closed, running, tasks, spinning,
                   bus, budget, relays, call, verdict, age, origin,
                   published,
                   lifeVars, subVars, shutdown_on_drop, gift, dropPc>>

\* RelayPool::clear_already_seen_events
Clear ==
    /\ ClearOp
    /\ UNCHANGED <<max_seen_events, channel, closed, running, tasks, bus,
                   budget, shutdownTasks, relays, call, published,
                   lifeVars, subVars, dropVars, gift>>

(***************************************************************************)
(* Relay registry.                                                         *)
(***************************************************************************)
NoRelays == [u \in URLs |-> NoRole]

\* an add_relay that replaces the entry of a URL it already holds
add_relay_replace(reg, u, role) ==
    [relays |-> [reg EXCEPT ![u] = role], inserted |-> reg[u] = NoRole]

\* RelayPool::add_relay on registry reg: the registry it leaves and the
\* boolean it returns
add_relay(reg, u, role) ==
    IF reg[u] = NoRole
    THEN [relays |-> [reg EXCEPT ![u] = role], inserted |-> TRUE]
    ELSE [relays |-> reg, inserted |-> FALSE]

\* a remove_relay that refuses a URL it does not hold
remove_relay_strict(reg, u, ok) ==
    [relays |-> [reg EXCEPT ![u] = NoRole],
     terminated |-> reg[u] # NoRole,
     result |-> IF reg[u] = NoRole THEN "RelayNotFound"
                ELSE IF ok THEN "Ok" ELSE "Relay"]

\* RelayPool::remove_relay on registry reg, ok being what relay.terminate()
\* returns: the registry it leaves, whether the relay was terminated, and
\* its result
remove_relay(reg, u, ok) ==
    [relays |-> [reg EXCEPT ![u] = NoRole],
     terminated |-> reg[u] # NoRole,
     result |-> IF reg[u] = NoRole \/ ok THEN "Ok" ELSE "Relay"]

\* RelayPool::add_relay
AddRelay(u, role) ==
    /\ relays' = add_relay(relays, u, role).relays
    /\ UNCHANGED <<max_seen_events, events, channel, closed, running, tasks,
                   spinning, bus, budget, shutdownTasks, call, verdict,
                   age, origin, published,
                   lifeVars, subVars, dropVars, gift>>

\* RelayPool::remove_relay
RemoveRelay(u) ==
    /\ \E ok \in BOOLEAN : relays' = remove_relay(relays, u, ok).relays
    /\ UNCHANGED <<max_seen_events, events, channel, closed, running, tasks,
                   spinning, bus, budget, shutdownTasks, call, verdict,
                   age, origin, published,
                   lifeVars, subVars, dropVars, gift>>

(***************************************************************************)
(* Outbound fan-out: send_msg, batch_msg, send_event, batch_event.         *)
(***************************************************************************)
Ops == {"send_msg", "batch_msg", "send_event", "batch_event"}

\* the event IDs a call's payload carries: a ClientMessage is an event or not,
\* a batch holds any number of them
Payloads(op) ==
    CASE op = "send_event" -> {<<i>> : i \in WireIDs}
      [] op = "send_msg" -> {<<>>} \cup {<<i>> : i \in WireIDs}
      [] OTHER -> {<<>>} \cup {<<i>> : i \in WireIDs}
                    \cup {<<p[1], p[2]>> :
                            p \in {q \in WireIDs \X WireIDs : q[1] < q[2]}}

\* the role sets a caller passes
RoleSets == {{}, {"Write", "ReadWrite"}, Roles}

Result(k, i) == [kind |-> k, id |-> i]

NoCall ==
    [op |-> "none", ids |-> <<>>, accepted |-> {}, pc |-> "idle",
     marked |-> FALSE, contacted |-> {}, acked |-> {}, result |-> Result("none", NoId),
     target |-> NoUrl, reply |-> Result("none", NoId)]

\* a snapshot that never counts as empty
NeverEmpty(reg) == FALSE

\* relays.is_empty() on the snapshot
IsEmpty(reg) == \A u \in URLs : reg[u] = NoRole

\* every relay of the snapshot, whatever its role
AcceptedAll(reg, roles) == {u \in URLs : reg[u] # NoRole}

\* the relays of the snapshot whose role the caller accepts:
\* roles.contains(&relay.role().await)
Accepted(reg, roles) == {u \in URLs : reg[u] \in roles}

\* a fan-out that never marks what it sends
NeedsMarkerNever(op, ids) == FALSE

\* send_msg marks only a ClientMessage::Event; the others always call
\* set_events_as_sent
NeedsMarker(op, ids) == IF op = "send_msg" THEN ids # <<>> ELSE TRUE

\* the error returned when the at-least-one flag is still false
NotSent(op, ids) ==
    CASE op = "send_msg" -> Result("MsgNotSent", NoId)
      [] op = "batch_msg" -> Result("MsgNotSent", NoId)
      [] op = "send_event" -> Result("EventNotPublished", ids[1])
      [] op = "batch_event" -> Result("EventsNotPublished", NoId)

\* the value returned when the flag is set
Sent(op, ids) ==
    IF op = "send_event" THEN Result("Ok", ids[1]) ELSE Result("Ok", NoId)

\* a verdict that asks every contacted relay to have accepted
VerdictAll(c) ==
    IF c.acked = {} \/ c.acked # c.contacted
    THEN NotSent(c.op, c.ids)
    ELSE Sent(c.op, c.ids)

\* the verdict after the join: sent_to_at_least_one_relay.load()
Verdict(c) ==
    IF c.acked = {} THEN NotSent(c.op, c.ids) ELSE Sent(c.op, c.ids)

\* the call a fan-out operation starts on registry snapshot reg: NoRelays
\* when the snapshot is empty, else the relays it will send to
Enter(reg, op, ids, roles) ==
    LET c == [NoCall EXCEPT !.op = op, !.ids = ids,
                            !.accepted = Accepted(reg, roles)]
    IN IF IsEmpty(reg)
       THEN [c EXCEPT !.pc = "done", !.result = Result("NoRelays", NoId)]
       ELSE [c EXCEPT !.pc = IF NeedsMarker(op, ids) THEN "mark" ELSE "send"]

\* entry of a fan-out operation: snapshot of the registry, NoRelays when empty
Begin(op, ids, roles) ==
    /\ call.pc \in {"idle", "done"}
    /\ call' = Enter(relays, op, ids, roles)
    /\ UNCHANGED <<max_seen_events, events, channel, closed, running, tasks,
                   spinning, bus, budget, shutdownTasks, relays, verdict,
                   age, origin, published,
                   lifeVars, subVars, dropVars, gift>>

\* entry of a fan-out operation whose payload makes it call
\* set_events_as_sent before the per-relay sends
BeginEvent(op, ids, roles) ==
    /\ NeedsMarker(op, ids)
    /\ Begin(op, ids, roles)

\* RelayPool::set_events_as_sent: send(BatchEvent(ids)).await waits for room
\* and fails (logged) when the receiver is closed
SetEventsAsSent(ids) ==
    /\ closed \/ Len(channel) < ChanSize
    /\ channel' = IF closed THEN channel ELSE Append(channel, BatchEvent(ids))
    /\ published' = IF closed THEN published ELSE published \cup Range(ids)

\* the marking step of a fan-out operation
Mark ==
    /\ call.pc = "mark"
    /\ SetEventsAsSent(call.ids)
    /\ call' = [call EXCEPT !.pc = "send", !.marked = ~closed]
    /\ UNCHANGED <<max_seen_events, events, closed, running, tasks, spinning,
                   bus, budget, shutdownTasks, relays, verdict, age, origin,
                   lifeVars, subVars, dropVars, gift>>

\* a publishing operation seen from the aggregator: what send_event,
\* batch_event, send_event_to, send_msg, batch_msg and send_msg_to do to the
\* channel is their call of set_events_as_sent
Publish(ids) ==
    /\ SetEventsAsSent(ids)
    /\ UNCHANGED <<max_seen_events, events, closed, running, tasks, spinning,
                   bus, budget, shutdownTasks, relays, call, verdict, age,
                   origin,
                   lifeVars, subVars, dropVars, gift>>

\* one spawned task: the per-relay send returns Ok or Err
RelaySend(u, ok) ==
    /\ call.pc = "send"
    /\ u \in call.accepted \ call.contacted
    /\ call' = [call EXCEPT !.contacted = @ \cup {u},
                            !.acked = IF ok THEN @ \cup {u} ELSE @]
    /\ UNCHANGED <<max_seen_events, events, channel, closed, running, tasks,
                   spinning, bus, budget, shutdownTasks, relays, verdict,
                   age, origin, published,
                   lifeVars, subVars, dropVars, gift>>

\* all tasks joined: the verdict
Return ==
    /\ call.pc = "send"
    /\ call.contacted = call.accepted
    /\ call' = [call EXCEPT !.pc = "done", !.result = Verdict(call)]
    /\ UNCHANGED <<max_seen_events, events, channel, closed, running, tasks,
                   spinning, bus, budget, shutdownTasks, relays, verdict,
                   age, origin, published,
                   lifeVars, subVars, dropVars, gift>>

(***************************************************************************)
(* Single-relay operations: send_msg_to, send_event_to.                    *)
(***************************************************************************)
ToOps == {"send_msg_to", "send_event_to"}

\* the event IDs the payload carries: send_event_to takes an event,
\* send_msg_to a ClientMessage that is an event or not
PayloadsTo(op) ==
    IF op = "send_event_to"
    THEN {<<i>> : i \in WireIDs}
    ELSE {<<>>} \cup {<<i>> : i \in WireIDs}

\* what the relay's own send returns to the pool: send_event gives an event
\* ID or an error, send_msg gives () or an error
Replies(op) ==
    IF op = "send_event_to"
    THEN {Result("Ok", i) : i \in WireIDs} \cup {Result("RelayError", NoId)}
    ELSE {Result("Ok", NoId), Result("RelayError", NoId)}

\* Ok(relay.send(..).await?): an Ok value is passed on, an error is
\* converted by #[from] into Error::Relay
FromRelay(reply) ==
    IF reply.kind = "Ok" THEN reply ELSE Result("Relay", reply.id)

\* an entry that does not look the URL up
BeginToNoLookup(op, u, ids) ==
    /\ call.pc \in {"idle", "done"}
    /\ call' = [NoCall EXCEPT !.op = op, !.ids = ids, !.target = u,
                              !.accepted = {u},
                              !.pc = IF op = "send_event_to" \/ ids # <<>>
                                     THEN "mark" ELSE "send"]
    /\ UNCHANGED <<max_seen_events, events, channel, closed, running, tasks,
                   spinning, bus, budget, shutdownTasks, relays, verdict,
                   age, origin, published,
                   lifeVars, subVars, dropVars, gift>>

\* entry of send_msg_to and send_event_to: self.relay(url).await? returns
\* RelayNotFound for a URL the registry does not hold; send_msg_to marks
\* only a ClientMessage::Event
BeginTo(op, u, ids) ==
    /\ call.pc \in {"idle", "done"}
    /\ LET c == [NoCall EXCEPT !.op = op, !.ids = ids, !.target = u]
       IN call' = IF relays[u] = NoRole
                  THEN [c EXCEPT !.pc = "done",
                                 !.result = Result("RelayNotFound", NoId)]
                  ELSE [c EXCEPT !.accepted = {u},
                                 !.pc = IF op = "send_event_to" \/ ids # <<>>
                                        THEN "mark" ELSE "send"]
    /\ UNCHANGED <<max_seen_events, events, channel, closed, running, tasks,
                   spinning, bus, budget, shutdownTasks, relays, verdict,
                   age, origin, published,
                   lifeVars, subVars, dropVars, gift>>

\* the delegation: relay.send_msg / relay.send_event on the one relay, and
\* the return of what it gave
SendTo(reply) ==
    /\ call.pc = "send"
    /\ call.op \in ToOps
    /\ reply \in Replies(call.op)
    /\ call' = [call EXCEPT !.contacted = {call.target},
                            !.acked = IF reply.kind = "Ok" THEN {call.target} ELSE {},
                            !.reply = reply,
                            !.pc = "done",
                            !.result = FromRelay(reply)]
    /\ UNCHANGED <<max_seen_events, events, channel, closed, running, tasks,
                   spinning, bus, budget, shutdownTasks, relays, verdict,
                   age, origin, published,
                   lifeVars, subVars, dropVars, gift>>

(***************************************************************************)
(* NIP-59: gift wrap and extract_rumor.                                    *)
(***************************************************************************)
PubKeys == {"pa", "pb"}
NoKey == "none"

\* Keys: a key pair, or a public key alone (secret_key() then fails)
KeyPairs == {[secret |-> "sa", public |-> "pa"], [secret |-> "sb", public |-> "pb"]}
PublicOnly == {[secret |-> NoKey, public |-> "pa"]}

\* the public key of a secret key
PublicOf(sk) == IF sk = "sa" THEN "pa" ELSE "pb"

\* the NIP-44 conversation key of a secret key and a public key: the shared
\* secret is the same from either side
ConversationKey(sk, pk) == {PublicOf(sk), pk}

\* strings: plain text, the JSON of an event or of an unsigned event, and a
\* NIP-44 payload
Plain(t) == [form |-> "plain", key |-> {}, value |-> t]
AsJson(form, v) == [form |-> form, key |-> {}, value |-> v]
Encrypt(sk, pk, text) ==
    [form |-> "nip44", key |-> ConversationKey(sk, pk), value |-> text]

Good(v) == [kind |-> "Ok", value |-> v]
Bad(k) == [kind |-> k, value |-> "none"]

\* nip44::decrypt: the payload opens only under the conversation key it was
\* made with
Decrypt(sk, pk, text) ==
    IF text.form = "nip44" /\ text.key = ConversationKey(sk, pk)
    THEN Good(text.value)
    ELSE Bad("NIP44")

\* Event::from_json and UnsignedEvent::from_json
FromJson(form, text, err) ==
    IF text.form = form THEN Good(text.value) ELSE Bad(err)

\* the rumors: unsigned text notes of an author
Contents == {"Test", ""}
Rumor(pk, c) == [kind |-> "TextNote", pubkey |-> pk, content |-> Plain(c), tags |-> <<>>]

\* EventBuilder::to_event(keys): the event signed by keys
ToEvent(keys, kind, content, tags) ==
    [kind |-> kind, pubkey |-> keys.public, content |-> content, tags |-> tags]

\* EventBuilder::seal: the rumor's JSON encrypted by the sender for the
\* receiver, signed by the sender
Seal(keys, receiver, rumor) ==
    ToEvent(keys, "Seal", Encrypt(keys.secret, receiver, AsJson("unsigned", rumor)), <<>>)

\* EventBuilder::gift_wrap(keys, receiver, rumor).to_event(keys): the seal's
\* JSON encrypted by the sender for the receiver, tagged with the receiver
GiftWrap(keys, receiver, rumor) ==
    ToEvent(keys, "GiftWrap",
            Encrypt(keys.secret, receiver, AsJson("event", Seal(keys, receiver, rumor))),
            <<receiver>>)

\* an extract_first_public_key that takes the author of the event
extract_author_public_key(event) == event.pubkey

\* extract_first_public_key: the first p tag of the event, if any
extract_first_public_key(event) ==
    IF event.tags = <<>> THEN NoKey ELSE event.tags[1]

\* extract_rumor(keys, gift_wrap)
extract_rumor(keys, gift_wrap) ==
    IF gift_wrap.kind # "GiftWrap" THEN Bad("NotGiftWrap")
    ELSE IF keys.secret = NoKey THEN Bad("Key")
    ELSE LET receiver == extract_first_public_key(gift_wrap)
         IN IF receiver = NoKey THEN Bad("ReceiverPubkeyNotFound")
            ELSE LET sealText == Decrypt(keys.secret, receiver, gift_wrap.content)
                 IN IF sealText.kind # "Ok" THEN sealText
                    ELSE LET seal == FromJson("event", sealText.value, "Event")
                         IN IF seal.kind # "Ok" THEN seal
                            ELSE LET rumorText == Decrypt(keys.secret, receiver,
                                                          seal.value.content)
                                 IN IF rumorText.kind # "Ok" THEN rumorText
                                    ELSE FromJson("unsigned", rumorText.value, "Unsigned")

NoGift ==
    [pc |-> "none", keys |-> [secret |-> NoKey, public |-> NoKey],
     receiver |-> NoKey, content |-> "", reader |-> [secret |-> NoKey, public |-> NoKey],
     event |-> "none", result |-> Bad("none")]

\* the sender composes the gift wrap of its rumor
Compose ==
    /\ gift.pc = "input"
    /\ gift' = [gift EXCEPT !.pc = "built",
                            !.event = GiftWrap(gift.keys, gift.receiver,
                                               Rumor(gift.keys.public, gift.content))]
    /\ UNCHANGED <<coreVars, relays, lifeVars, subVars, dropVars>>

\* the sender signs a plain text note instead
ComposeNote ==
    /\ gift.pc = "input"
    /\ gift' = [gift EXCEPT !.pc = "built",
                            !.event = ToEvent(gift.keys, "TextNote",
                                              Plain(gift.content), <<>>)]
    /\ UNCHANGED <<coreVars, relays, lifeVars, subVars, dropVars>>

\* the reader applies extract_rumor to the event
Extract ==
    /\ gift.pc = "built"
    /\ gift' = [gift EXCEPT !.pc = "extracted",
                            !.result = extract_rumor(gift.reader, gift.event)]
    /\ UNCHANGED <<coreVars, relays, lifeVars, subVars, dropVars>>

(***************************************************************************)
(* disconnect.                                                             *)
(***************************************************************************)
\* RelayPool::disconnect, entry: the snapshot of the registry. In the call
\* record accepted is the snapshot, contacted the relays terminate() was
\* called on, acked those where it returned Ok.
DisconnectBegin ==
    /\ call.pc \in {"idle", "done"}
    /\ LET c == [NoCall EXCEPT !.op = "disconnect",
                                !.accepted = {u \in URLs : relays[u] # NoRole}]
       IN call' = IF c.accepted = {}
                  THEN [c EXCEPT !.pc = "done", !.result = Result("Ok", NoId)]
                  ELSE [c EXCEPT !.pc = "loop"]
    /\ UNCHANGED <<max_seen_events, events, channel, closed, running, tasks,
                   spinning, bus, budget, shutdownTasks, relays, verdict,
                   age, origin, published,
                   lifeVars, subVars, dropVars, gift>>

\* one iteration of `for relay in relays.values()`, in the map's order:
\* self.disconnect_relay(relay).await? calls relay.terminate() and returns
\* its error at once; after the last relay the call returns Ok
DisconnectRelay(u, ok) ==
    /\ call.pc = "loop"
    /\ call.op = "disconnect"
    /\ u \in call.accepted \ call.contacted
    /\ LET c == [call EXCEPT !.contacted = @ \cup {u},
                             !.acked = IF ok THEN @ \cup {u} ELSE @]
       IN call' = IF ~ok
                  THEN [c EXCEPT !.pc = "done", !.result = Result("Relay", NoId)]
                  ELSE IF c.contacted = c.accepted
                  THEN [c EXCEPT !.pc = "done", !.result = Result("Ok", NoId)]
                  ELSE c
    /\ UNCHANGED <<max_seen_events, events, channel, closed, running, tasks,
                   spinning, bus, budget, shutdownTasks, relays, verdict,
                   age, origin, published,
                   lifeVars, subVars, dropVars, gift>>

(***************************************************************************)
(* Drop of a pool handle.                                                  *)
(***************************************************************************)
\* Drop::drop, up to the read of the flag: nothing is done when
\* shutdown_on_drop is unset or when dropped.load() gives true
DropCheck(h) ==
    /\ dropPc[h] = "live"
    /\ dropPc' = [dropPc EXCEPT ![h] = IF shutdown_on_drop /\ ~dropped
                                       THEN "checked" ELSE "gone"]
    /\ UNCHANGED <<coreVars, relays, lifeVars, subVars, shutdown_on_drop, gift,
                   dropped, dropTasks>>

\* Drop::drop, the else branch: dropped.fetch_update(true), then the task
\* running shutdown() on a clone is detached; with nothing to disconnect it
\* detaches the sender of Shutdown. The clone that task holds is dropped
\* after the flag was set, so its own drop does nothing.
DropSpawn(h) ==
    /\ dropPc[h] = "checked"
    /\ dropped' = TRUE
    /\ dropTasks' = dropTasks + 1
    /\ shutdownTasks' = shutdownTasks + 1
    /\ dropPc' = [dropPc EXCEPT ![h] = "gone"]
    /\ UNCHANGED <<max_seen_events, events, channel, closed, running, tasks,
                   spinning, bus, budget, relays, call, verdict, age, origin,
                   published, lifeVars, subVars, shutdown_on_drop, gift>>

\* RelayPool::shutdown(self) called on handle h: the handle is moved into
\* the call, and with nothing to disconnect the sender of Shutdown is
\* detached, owning the handle
ShutdownBy(h) ==
    /\ dropPc[h] = "live"
    /\ dropPc' = [dropPc EXCEPT ![h] = "moved"]
    /\ shutdownTasks' = shutdownTasks + 1
    /\ phase' = "shutdown"
    /\ UNCHANGED <<max_seen_events, events, channel, closed, running, tasks,
                   spinning, bus, budget, relays, call, verdict, age, origin,
                   published, starting, subVars, shutdown_on_drop, gift, dropped,
                   dropTasks>>

(***************************************************************************)
(* Subscription: subscribe, connect_relay.                                 *)
(***************************************************************************)
\* RelayPool::subscribe: the stored filter set is replaced, then every relay
\* of the snapshot is subscribed under InternalSubscriptionId::Pool
Subscribe(f) ==
    /\ filters' = f
    /\ given' = [u \in URLs |-> IF relays[u] # NoRole THEN f ELSE given[u]]
    /\ UNCHANGED <<coreVars, relays, lifeVars, connPc, connRead, dropVars, gift>>

\* RelayPool::connect_relay, first statement: self.subscription_filters()
ConnectRead(u) ==
    /\ relays[u] # NoRole
    /\ connPc[u] \in {"idle", "connected", "joined"}
    /\ connRead' = [connRead EXCEPT ![u] = filters]
    /\ connPc' = [connPc EXCEPT ![u] = "read"]
    /\ UNCHANGED <<coreVars, relays, lifeVars, filters, given, dropVars, gift>>

\* a connect_relay that hands the relay nothing
ConnectUpdateSkip(u) ==
    /\ connPc[u] = "read"
    /\ connPc' = [connPc EXCEPT ![u] = "updated"]
    /\ UNCHANGED <<coreVars, relays, lifeVars, filters, given, connRead, dropVars, gift>>

\* RelayPool::connect_relay, second statement:
\* relay.update_subscription_filters(InternalSubscriptionId::Pool, filters)
ConnectUpdate(u) ==
    /\ connPc[u] = "read"
    /\ given' = [given EXCEPT ![u] = connRead[u]]
    /\ connPc' = [connPc EXCEPT ![u] = "updated"]
    /\ UNCHANGED <<coreVars, relays, lifeVars, filters, connRead, dropVars, gift>>

\* RelayPool::connect_relay, last statement: relay.connect(wait_for_connection)
ConnectGo(u) ==
    /\ connPc[u] = "updated"
    /\ connPc' = [connPc EXCEPT ![u] = "connected"]
    /\ UNCHANGED <<coreVars, relays, lifeVars, filters, given, connRead, dropVars, gift>>

\* connect(wait_for_connection = true): the task spawned for relay u ends
\* after connect_relay returned, and the clone of the pool it owns is
\* dropped: Drop::drop runs on it, and when it takes its else branch the
\* flag is set and a task running shutdown() is detached
ConnectTaskEnd(u) ==
    /\ connPc[u] = "connected"
    /\ connPc' = [connPc EXCEPT ![u] = "joined"]
    /\ IF DropFires
       THEN /\ dropped' = TRUE
            /\ dropTasks' = dropTasks + 1
            /\ shutdownTasks' = shutdownTasks + 1
       ELSE UNCHANGED <<dropped, dropTasks, shutdownTasks>>
    /\ UNCHANGED <<max_seen_events, events, channel, closed, running, tasks,
                   spinning, bus, budget, relays, call, verdict, age, origin,
                   published, lifeVars, filters, given, connRead,
                   shutdown_on_drop, dropPc, gift>>

(***************************************************************************)
(* The cache operations called one by one.                                 *)
(***************************************************************************)
CallAddEvent(id) ==
    /\ ~spinning
    /\ AddEventOp(NoUrl, id)
    /\ UNCHANGED <<max_seen_events, channel, closed, running, tasks, bus, budget,
                   shutdownTasks, relays, call, published,
                   lifeVars, subVars, dropVars, gift>>

CallAddEvents(ids) ==
    /\ ~spinning
    /\ AddEventsOp(ids)
    /\ UNCHANGED <<max_seen_events, channel, closed, running, tasks, bus, budget,
                   shutdownTasks, relays, call, published,
                   lifeVars, subVars, dropVars, gift>>

\* the batches handed to add_events
Batches == {<<>>} \cup {<<i>> : i \in IDs} \cup {<<i, j>> : i, j \in IDs}

(***************************************************************************)
(* Specifications.                                                         *)
(***************************************************************************)
\* RelayPool::new: empty registry, empty cache, the aggregator started
Created ==
    /\ max_seen_events \in 0..MaxCap
    /\ events = <<>>
    /\ channel = <<>>
    /\ closed = FALSE
    /\ running = TRUE
    /\ tasks = 1
    /\ spinning = FALSE
    /\ bus = <<>>
    /\ shutdownTasks = 0
    /\ call = NoCall
    /\ verdict = NoVerdict
    /\ age = NoAge
    /\ origin = NoOrigin
    /\ published = {}
    /\ starting = 0
    /\ phase = "started"
    /\ filters = NoFilters
    /\ given = [u \in URLs |-> NoFilters]
    /\ connPc = [u \in URLs |-> "idle"]
    /\ connRead = [u \in URLs |-> NoFilters]
    /\ dropped = FALSE
    /\ dropPc = [h \in Handles |-> "live"]
    /\ dropTasks = 0

\* The inbound side: a pool whose relays were added, the relay drivers, the
\* aggregator, the markers of the publishing operations and the cache.
Init ==
    /\ Created
    /\ relays = [u \in URLs |-> "ReadWrite"]
    /\ budget = MaxMsgs
    /\ shutdown_on_drop = FALSE
    /\ gift = NoGift

Next ==
    \/ AggStep
    \/ \E u \in URLs, raw \in RawMessages : Deliver(u, raw)
    \/ \E ids \in Payloads("batch_event") : Publish(ids)
    \/ Clear

Spec == Init /\ [][Next]_vars

\* The lifecycle: start, stop and shutdown of the same pool, with the
\* scheduling the runtime guarantees: a task that can take a step takes it,
\* and a sender waiting for room in the channel is served in its turn.
LifeNext ==
    \/ AggStep
    \/ AggExit
    \/ \E u \in URLs, raw \in RawMessages : Deliver(u, raw)
    \/ \E u \in URLs : StatusChange(u)
    \/ \E ids \in Payloads("send_event") : Publish(ids)
    \/ Start
    \/ StartSpawn
    \/ Stop
    \/ Shutdown
    \/ ShutdownSend

LifeSpec ==
    /\ Init
    /\ [][LifeNext]_vars
    /\ WF_vars(AggStep)
    /\ WF_vars(AggExit)
    /\ WF_vars(StartSpawn)
    /\ SF_vars(ShutdownSend)

\* The outbound side: the registry and the fan-out operations of a new pool,
\* with the aggregator consuming the markers.
FanInit ==
    /\ Created
    /\ relays = NoRelays
    /\ budget = 0
    /\ shutdown_on_drop = FALSE
    /\ gift = NoGift

FanNext ==
    \/ AggStep
    \/ \E u \in URLs, role \in Roles : AddRelay(u, role)
    \/ \E u \in URLs : RemoveRelay(u)
    \/ \E op \in Ops : \E ids \in Payloads(op), roles \in RoleSets :
          Begin(op, ids, roles)
    \/ Mark
    \/ \E u \in URLs, ok \in BOOLEAN : RelaySend(u, ok)
    \/ Return

FanSpec == FanInit /\ [][FanNext]_vars

\* the fan-out operations on a pool created with the largest cache
RoleInit ==
    /\ FanInit
    /\ max_seen_events = MaxCap

RoleSpec == RoleInit /\ [][FanNext]_vars

\* disconnect on a changing registry, beside the aggregator at work
DiscNext ==
    \/ AggStep
    \/ \E i \in WireIDs : Publish(<<i>>)
    \/ \E u \in URLs, role \in Roles : AddRelay(u, role)
    \/ \E u \in URLs : RemoveRelay(u)
    \/ DisconnectBegin
    \/ \E u \in URLs, ok \in BOOLEAN : DisconnectRelay(u, ok)

DiscSpec == FanInit /\ [][DiscNext]_vars

\* the single-relay operations against a changing registry
ToNext ==
    \/ AggStep
    \/ \E u \in URLs, role \in Roles : AddRelay(u, role)
    \/ \E u \in URLs : RemoveRelay(u)
    \/ \E op \in ToOps : \E u \in URLs, ids \in PayloadsTo(op) : BeginTo(op, u, ids)
    \/ Mark
    \/ \E reply \in Replies(call.op) : SendTo(reply)

ToSpec == FanInit /\ [][ToNext]_vars

\* gift wraps of every rumor, sender and receiver, opened with every Keys
WrapInit ==
    /\ Created
    /\ relays = NoRelays
    /\ budget = 0
    /\ shutdown_on_drop = FALSE
    /\ \E k \in KeyPairs, r \in PubKeys, c \in Contents, rd \in KeyPairs \cup PublicOnly :
          gift = [NoGift EXCEPT !.pc = "input", !.keys = k, !.receiver = r,
                                !.content = c, !.reader = rd]

WrapNext == Compose \/ ComposeNote \/ Extract

WrapSpec == WrapInit /\ [][WrapNext]_vars

\* connect with wait_for_connection on a pool of two relays, created with
\* either value of shutdown_on_drop, whose handles may be dropped
ConnInit ==
    /\ Created
    /\ relays = [u \in URLs |-> "ReadWrite"]
    /\ budget = 0
    /\ shutdown_on_drop \in BOOLEAN
    /\ gift = NoGift

ConnNext ==
    \/ AggStep
    \/ ShutdownSend
    \/ \E f \in FilterSets : Subscribe(f)
    \/ \E u \in URLs : ConnectRead(u)
    \/ \E u \in URLs : ConnectUpdate(u)
    \/ \E u \in URLs : ConnectGo(u)
    \/ \E u \in URLs : ConnectTaskEnd(u)
    \/ \E h \in Handles : DropCheck(h)
    \/ \E h \in Handles : DropSpawn(h)

ConnSpec == ConnInit /\ [][ConnNext]_vars

\* a pool and its clone, created with either value of shutdown_on_drop, used
\* for publishing and dropped in any order
DropInit ==
    /\ Created
    /\ relays = NoRelays
    /\ budget = 0
    /\ shutdown_on_drop \in BOOLEAN
    /\ gift = NoGift

DropNext ==
    \/ AggStep
    \/ ShutdownSend
    \/ \E i \in WireIDs : Publish(<<i>>)
    \/ \E h \in Handles : DropCheck(h)
    \/ \E h \in Handles : DropSpawn(h)
    \/ \E h \in Handles : ShutdownBy(h)

DropSpec == DropInit /\ [][DropNext]_vars

\* Subscription: relays added to a new pool, subscribe and connect_relay on
\* the registered relays, in any order.
SubNext ==
    \/ \E u \in URLs, role \in Roles : AddRelay(u, role)
    \/ \E f \in FilterSets : Subscribe(f)
    \/ \E u \in URLs : ConnectRead(u)
    \/ \E u \in URLs : ConnectUpdate(u)
    \/ \E u \in URLs : ConnectGo(u)

SubSpec == FanInit /\ [][SubNext]_vars

\* The event-carrying fan-out operations of a pool that may be stopped, with
\* the scheduling the runtime guarantees: the aggregator takes the next
\* message while it lives, a sender waiting for room is served when there
\* is room, the per-relay sends return and the joined call returns.
SendInit ==
    /\ Created
    /\ max_seen_events = MaxCap
    /\ relays = NoRelays
    /\ budget = MaxMsgs
    /\ shutdown_on_drop = FALSE
    /\ gift = NoGift

SendNext ==
    \/ AggStep
    \/ \E u \in URLs, role \in Roles : AddRelay(u, role)
    \/ \E op \in Ops : \E ids \in Payloads(op), roles \in RoleSets :
          BeginEvent(op, ids, roles)
    \/ Mark
    \/ \E u \in URLs, ok \in BOOLEAN : RelaySend(u, ok)
    \/ Return
    \/ Stop

SendSpec ==
    /\ SendInit
    /\ [][SendNext]_vars
    /\ WF_vars(AggStep)
    /\ WF_vars(Mark)
    /\ WF_vars(\E u \in URLs, ok \in BOOLEAN : RelaySend(u, ok))
    /\ WF_vars(Return)

\* The cache alone: add_event, add_events and clear_already_seen_events called
\* in any order on the cache of a new pool.
CacheNext ==
    \/ \E id \in IDs : CallAddEvent(id)
    \/ \E ids \in Batches : CallAddEvents(ids)
    \/ Clear

CacheSpec == FanInit /\ [][CacheNext]_vars

(***************************************************************************)
(* Properties of the inbound side.                                         *)
(***************************************************************************)
EventCount(b, i) ==
    Cardinality({k \in 1..Len(b) : b[k].type = "Event" /\ b[k].id = i})

MessageCount(b, i) ==
    Cardinality({k \in 1..Len(b) :
                    b[k].type = "Message" /\ b[k].kind = "Event" /\ b[k].id = i})

\* i is among the last max_seen_events IDs pushed since the last clear
InWindow(i) == age[i] >= 0 /\ age[i] < max_seen_events

\* the aggregator takes the head of the channel in this step
Takes == channel # <<>> /\ channel' = Tail(channel)

\* an event frame that passes no check / every check, said of the frame
Defective(raw) == raw.kind = "Event" /\ (~raw.sig \/ raw.exp \/ ~raw.idok)
Sound(raw) == raw.kind = "Event" /\ raw.sig /\ ~raw.exp /\ raw.idok

TakesSound == Takes /\ Head(channel).type = "ReceivedMsg" /\ Sound(Head(channel).raw)

\* C1 as stated: whatever the deliveries and whatever arrives in between, no
\* event ID ever has more than one Event notification on the bus.
C1_AtMostOneEventPerId == \A i \in IDs : EventCount(bus, i) <= 1

\* C1 amended: a step emits at most one Event notification for an ID, and
\* emits one only when the ID is not among the last max_seen_events IDs
\* admitted since the cache was last cleared; while an ID stays in that
\* window no redelivery of it produces a further Event notification.
C1_EventOnlyOutsideWindow ==
    [][\A i \in IDs :
          /\ EventCount(bus', i) <= EventCount(bus, i) + 1
          /\ EventCount(bus', i) > EventCount(bus, i) => ~InWindow(i)]_vars

\* an ID delivered twice and notified as an Event once
C1_RedeliveredOnce ==
    \E i \in IDs : MessageCount(bus, i) = 2 /\ EventCount(bus, i) = 1

LastEventUrl(b, i) ==
    LET ks == {k \in 1..Len(b) : b[k].type = "Event" /\ b[k].id = i}
    IN IF ks = {} THEN NoUrl
       ELSE b[CHOOSE k \in ks : \A j \in ks : j <= k].url

\* the URL of the first Message notification of i on bus b, NoUrl if none
FirstMessageUrl(b, i) ==
    LET ks == {k \in 1..Len(b) :
                  b[k].type = "Message" /\ b[k].kind = "Event" /\ b[k].id = i}
    IN IF ks = {} THEN NoUrl
       ELSE b[CHOOSE k \in ks : \A j \in ks : k <= j].url

C4_DefectiveFrameDropped ==
    [][(Takes /\ Head(channel).type = "ReceivedMsg" /\ Defective(Head(channel).raw))
          => (bus' = bus /\ events' = events)]_vars

\* every frame the relays delivered was taken, and none left a trace: each
\* was an event frame that failed a check
C4_AllFramesDropped ==
    /\ budget = 0
    /\ channel = <<>>
    /\ bus = <<>>
    /\ events = <<>>

(***************************************************************************)
(* Properties of the outbound side.                                        *)
(***************************************************************************)
\* C5: send_msg returns success exactly when at least one per-relay send
\* succeeded.
C5_SendMsgOkIffOneSent ==
    (call.pc = "done" /\ call.op = "send_msg") =>
        (call.result.kind = "Ok" <=> call.acked # {})

\* send_msg succeeded although one of the two relays refused
C5_OkWithOneRefusal ==
    /\ call.pc = "done"
    /\ call.op = "send_msg"
    /\ call.result.kind = "Ok"
    /\ call.acked # {}
    /\ call.acked # call.contacted

\* C6: on an empty registry each fan-out operation fails with NoRelays,
\* puts nothing into the channel and contacts no relay.
C6_EmptyRegistryNoRelays ==
    /\ [](call.result.kind = "NoRelays" =>
             (call.pc = "done" /\ ~call.marked /\ call.contacted = {}))
    /\ [][((relays = NoRelays) /\ call' # call /\ call.pc \in {"idle", "done"}) =>
             /\ call'.pc = "done"
             /\ call'.result = Result("NoRelays", NoId)
             /\ call'.contacted = {}
             /\ channel' = channel]_vars

\* batch_event was called on the empty registry
C6_BatchEventOnEmpty ==
    /\ relays = NoRelays
    /\ call.op = "batch_event"
    /\ call.ids # <<>>
    /\ call.result.kind = "NoRelays"
    /\ channel = <<>>

\* C7: with relays registered and none accepting, send_msg fails with
\* MsgNotSent, batch_msg with MsgsNotSent, send_event with
\* EventNotPublished(id) and batch_event with EventsNotPublished.
C7_ErrorPerOperation ==
    (call.pc = "done" /\ call.result.kind # "NoRelays" /\ call.acked = {}) =>
        call.result =
            CASE call.op = "send_msg" -> Result("MsgNotSent", NoId)
              [] call.op = "batch_msg" -> Result("MsgsNotSent", NoId)
              [] call.op = "send_event" -> Result("EventNotPublished", call.ids[1])
              [] call.op = "batch_event" -> Result("EventsNotPublished", NoId)

\* C15: an add_relay for an absent URL inserts the entry and returns true;
\* for a present URL it returns false and leaves the registry as it is; no
\* step replaces the entry of a registered URL, and an insertion leaves
\* every other entry unchanged.
C15_AddRelayIdempotent ==
    /\ [](\A u \in URLs, role \in Roles :
             LET r == add_relay(relays, u, role)
             IN IF relays[u] = NoRole
                THEN r.inserted /\ r.relays = [relays EXCEPT ![u] = role]
                ELSE ~r.inserted /\ r.relays = relays)
    /\ [][\A u \in URLs :
             /\ (relays[u] # NoRole /\ relays'[u] # NoRole) => relays'[u] = relays[u]
             /\ (relays[u] = NoRole /\ relays'[u] # NoRole) =>
                    \A v \in URLs \ {u} : relays'[v] = relays[v]]_vars

\* both URLs are registered, with different roles: an add of either with the
\* other's role returns false
C15_SecondAddRefused ==
    \E u, v \in URLs :
        /\ relays[u] = "Read"
        /\ relays[v] = "Write"
        /\ ~add_relay(relays, u, "Write").inserted

\* C16: remove_relay of an absent URL returns success and changes nothing;
\* of a present URL it terminates the relay and leaves the URL absent and
\* the other entries as they were; repeating it terminates nothing and
\* changes nothing.
C16_RemoveRelayIdempotent ==
    \A u \in URLs, ok \in BOOLEAN :
        LET r == remove_relay(relays, u, ok)
            again == remove_relay(r.relays, u, ok)
        IN /\ relays[u] = NoRole =>
                 (r.result = "Ok" /\ ~r.terminated /\ r.relays = relays)
           /\ relays[u] # NoRole =>
                 (r.terminated /\ r.relays = [relays EXCEPT ![u] = NoRole])
           /\ again.result = "Ok" /\ ~again.terminated /\ again.relays = r.relays

\* a relay that a fan-out call had in its snapshot was removed since
C16_RemovedAfterSnapshot ==
    \E u \in URLs : u \in call.accepted /\ relays[u] = NoRole

\* C17: send_event_to and send_msg_to on a URL the registry does not hold
\* return RelayNotFound at once, with no marker enqueued and no relay
\* contacted; on a URL it holds, the marker for the event ID is enqueued
\* before the relay is contacted, only that relay is contacted, and the
\* call returns what the relay returned.
C17_SingleRelaySend ==
    /\ [][(call.pc \in {"idle", "done"} /\ call' # call /\ call'.op \in ToOps) =>
             IF relays[call'.target] = NoRole
             THEN /\ call'.pc = "done"
                  /\ call'.result = Result("RelayNotFound", NoId)
                  /\ ~call'.marked
                  /\ call'.contacted = {}
                  /\ channel' = channel
             ELSE /\ call'.pc \in {"mark", "send"}
                  /\ call'.contacted = {}
                  /\ channel' = channel]_vars
    /\ [][(call.op \in ToOps /\ call'.op = call.op /\ ~call.marked /\ call'.marked) =>
             /\ channel' = Append(channel, BatchEvent(call.ids))
             /\ call.ids # <<>>
             /\ call.contacted = {}]_vars
    /\ [][(call.op \in ToOps /\ call.pc = "send" /\ call'.contacted # call.contacted) =>
             /\ call'.contacted = {call.target}
             /\ call.ids # <<>> => call.marked
             /\ call'.pc = "done"
             /\ call'.result = IF call'.reply.kind = "Ok"
                                THEN call'.reply
                                ELSE Result("Relay", call'.reply.id)]_vars
    /\ [](call.op \in ToOps /\ call.pc = "done" =>
             \/ /\ call.result.kind = "RelayNotFound"
                /\ ~call.marked
                /\ call.contacted = {}
             \/ /\ call.result.kind \in {"Ok", "Relay"}
                /\ call.contacted = {call.target}
                /\ call.marked = (call.ids # <<>>))

\* a send_event_to returned the relay's error after its marker was enqueued,
\* the other URL being absent from the registry
C17_MarkedThenDelegated ==
    /\ call.op = "send_event_to"
    /\ call.pc = "done"
    /\ call.marked
    /\ call.contacted = {call.target}
    /\ call.result = Result("Relay", NoId)
    /\ \E v \in URLs \ {call.target} : relays[v] = NoRole

\* the marker of the current call is still waiting in the channel
MarkerQueued == \E k \in 1..Len(channel) : channel[k] = BatchEvent(call.ids)

\* C18 as stated: when send_event returns with a relay having acknowledged,
\* the result is Ok(E.id) and E.id is in the seen-event cache.
C18_OkAndCached ==
    (call.op = "send_event" /\ call.pc = "done" /\ call.acked # {}) =>
        /\ call.result = Result("Ok", call.ids[1])
        /\ call.ids[1] \in Range(events)

\* C18: when send_event returns with a relay having acknowledged, the result
\* is Ok(E.id) and the marker for E.id was enqueued before any relay was
\* contacted; E.id is in the cache once the aggregator has taken the marker,
\* which can be after the return, and never if the aggregator is stuck in
\* the eviction loop of a zero-capacity cache.
C18_OkAndMarked ==
    (call.op = "send_event" /\ call.pc = "done" /\ call.acked # {}) =>
        /\ call.result = Result("Ok", call.ids[1])
        /\ call.marked
        /\ call.ids[1] \in published
        /\ \/ MarkerQueued
           \/ spinning
           \/ call.ids[1] \in Range(events)

\* send_event returned Ok on a registry holding one Write relay, which
\* acknowledged, and the aggregator has put the ID into the cache
C18_PublishedToOneWriteRelay ==
    \E u \in URLs :
        /\ call.op = "send_event"
        /\ call.pc = "done"
        /\ call.acked = {u}
        /\ relays[u] = "Write"
        /\ \A v \in URLs \ {u} : relays[v] = NoRole
        /\ call.result = Result("Ok", call.ids[1])
        /\ call.ids[1] \in Range(events)

\* C19: every Event notification on the bus is immediately preceded by the
\* Message notification of the same delivery: same relay URL, same event.
C19_MessageRightBeforeEvent ==
    \A k \in 1..Len(bus) :
        bus[k].type = "Event" =>
            /\ k > 1
            /\ bus[k - 1] = NMessage(bus[k].url, "Event", bus[k].id)

\* an Event notification that follows its Message, after the notifications
\* of an earlier delivery by the other relay
C19_SecondDeliveryNotified ==
    \E k \in 3..Len(bus) :
        /\ bus[k].type = "Event"
        /\ bus[k - 1] = NMessage(bus[k].url, "Event", bus[k].id)
        /\ bus[k - 2].type \in {"Message", "Event"}
        /\ bus[k - 2].url # bus[k].url

\* C20: over all drops of the pool and of its clones at most one shutdown
\* task is detached, and none when shutdown_on_drop is unset.
C20_OneShotDrop ==
    /\ dropTasks <= 1
    /\ ~shutdown_on_drop => dropTasks = 0

\* C21: once shutdown() has been called explicitly, no drop runs shutdown
\* again: no shutdown task is detached by a drop, so no drop disconnects
\* the relays a second time or creates a further sender of Shutdown.
C21_NoShutdownAfterShutdown ==
    [][phase = "shutdown" => dropTasks' = dropTasks]_vars

RECURSIVE AddEachInOrder(_, _, _)
AddEachInOrder(q, ids, cap) ==
    IF ids = <<>>
    THEN [events |-> q, spin |-> FALSE]
    ELSE LET a == AddEvent(q, Head(ids), cap)
         IN IF a.spin
            THEN [events |-> a.events, spin |-> TRUE]
            ELSE AddEachInOrder(a.events, Tail(ids), cap)

\* C23: from every cache state and for every batch, add_events leaves the
\* cache that add_event on each ID in order leaves; and the step in which
\* the aggregator takes a BatchEvent puts that cache in place and sends no
\* notification.
C23_BatchIsFold ==
    /\ [](\A ids \in Batches :
             LET a == AddEvents(events, ids, max_seen_events)
                 f == AddEachInOrder(events, ids, max_seen_events)
             IN a.events = f.events /\ a.spin = f.spin)
    /\ [][(tasks > 0 /\ ~spinning /\ channel # <<>> /\ channel' = Tail(channel)
              /\ Head(channel).type = "BatchEvent") =>
             LET f == AddEachInOrder(events, Head(channel).ids, max_seen_events)
             IN /\ events' = f.events
                /\ spinning' = f.spin
                /\ bus' = bus]_vars

\* a marker of two IDs was taken from the channel: both are cached in the
\* order given and nothing was notified
C23_BatchAdmittedSilently ==
    /\ max_seen_events = 2
    /\ events = <<1, 2>>
    /\ published = {1, 2}
    /\ channel = <<>>
    /\ bus = <<>>
    /\ budget = MaxMsgs

\* C24: a fan-out operation called with a set of roles takes as its targets
\* the relays registered at its entry whose role is in that set; it sends to
\* targets only, to one more target at a time and to none twice, and it
\* returns from its sends only when every target was sent to.
C24_SendOncePerAcceptedRelay ==
    /\ [][(call.pc \in {"idle", "done"} /\ call' # call /\ call'.op \in Ops) =>
             \A roles \in RoleSets :
                call' = Enter(relays, call'.op, call'.ids, roles) =>
                   /\ call'.accepted = {u \in URLs : relays[u] # NoRole
                                                      /\ relays[u] \in roles}
                   /\ call'.contacted = {}]_vars
    /\ [][(call.op \in Ops /\ call.pc \in {"mark", "send"} /\ call' # call) =>
             /\ call'.accepted = call.accepted
             /\ call.contacted \subseteq call'.contacted
             /\ call'.contacted \subseteq call.accepted
             /\ Cardinality(call'.contacted \ call.contacted) <= 1
             /\ call'.pc = "done" =>
                    (call.pc = "send" /\ call'.contacted = call.accepted
                        /\ call.contacted = call.accepted)]_vars
    /\ [](call.op \in Ops /\ call.pc = "done" /\ call.result.kind # "NoRelays" =>
             call.contacted = call.accepted)

\* a send_event returned on a registry holding a Write relay and a Read
\* relay: only the Write relay was a target and was sent to
C24_ReadRelaySkipped ==
    \E u, v \in URLs :
        /\ relays[u] = "Write"
        /\ relays[v] = "Read"
        /\ call.op = "send_event"
        /\ call.pc = "done"
        /\ call.accepted = {u}
        /\ call.contacted = {u}

\* C25: an aggregator task ends only by taking Stop or Shutdown from the
\* channel (or by finding the channel closed and drained, which only a
\* Shutdown taken earlier brings about), and no message it takes leaves it
\* unable to take the next one.
C25_OnlyStopEndsLoop ==
    /\ [][tasks' < tasks =>
             \/ Takes /\ Head(channel).type \in {"Stop", "Shutdown"}
             \/ closed /\ channel = <<>>]_vars
    /\ [](~spinning)

\* C26: when disconnect returns, terminate was called on every relay of
\* the registry it found; and no step of disconnect changes the running
\* flag, the channel, the cache or the registry.
C26_DisconnectAllFrame ==
    /\ [](call.op = "disconnect" /\ call.pc = "done" =>
             call.contacted = call.accepted)
    /\ [][(call'.op = "disconnect" /\ call' # call) =>
             /\ running' = running
             /\ tasks' = tasks
             /\ channel' = channel
             /\ events' = events
             /\ relays' = relays]_vars

\* C27: a shutdown task is detached only by a step of the drop of one of
\* the application's handles of the pool (or of shutdown called on one):
\* no step of connect detaches one.
C27_ConnectNeverShutsDown ==
    [][(shutdownTasks' > shutdownTasks \/ dropTasks' > dropTasks) =>
          dropPc' # dropPc]_vars

\* nothing is in progress: no start call between its test and its spawn, no
\* message waiting, no shutdown task about to send, no task busy in the
\* eviction loop or about to find the channel closed
Quiescent ==
    /\ starting = 0
    /\ channel = <<>>
    /\ shutdownTasks = 0
    /\ ~spinning
    /\ ~(tasks > 0 /\ closed)

\* C28: in every quiescent state the running flag is true exactly when an
\* aggregator task is alive, waiting for the next message of the channel.
C28_RunningIffTaskAlive ==
    Quiescent => (running <=> tasks > 0)

(***************************************************************************)
(* Properties of the cache.                                                *)
(***************************************************************************)
\* C8: whatever add_event, add_events and clear calls were made, the cache
\* holds no ID twice and no more than max_seen_events IDs.
C8_NoDuplicateBounded ==
    /\ Cardinality(Range(events)) = Len(events)
    /\ Len(events) <= max_seen_events

\* a batch filled the cache to its capacity, evicting an older ID
C8_FullAfterEviction ==
    /\ verdict = NoVerdict
    /\ max_seen_events = MaxCap
    /\ Len(events) = max_seen_events
    /\ \E j \in IDs : age[j] >= max_seen_events

\* C9: add_event returns true exactly when the ID is not among the last
\* max_seen_events IDs admitted; the cache holds those IDs oldest first, an
\* admission evicts from the front and only when the cache is full, and a
\* rejected duplicate changes nothing (it is not moved to the back).
C9_AdmitIffOutsideWindow ==
    /\ [](\A i \in IDs : i \in Range(events) <=> InWindow(i))
    /\ [](\A k \in 1..Len(events) : \A j \in 1..Len(events) :
             k < j => age[events[k]] > age[events[j]])
    /\ [][(verdict' # verdict /\ verdict'.id # NoId) =>
             LET i == verdict'.id
             IN /\ verdict'.admitted <=> ~InWindow(i)
                /\ ~verdict'.admitted => (events' = events /\ age' = age)
                /\ verdict'.admitted =>
                     \E k \in 0..Len(events) :
                        /\ events' = Append(SubSeq(events, k + 1, Len(events)), i)
                        /\ (k > 0 => Len(events') = max_seen_events)]_vars

\* a duplicate was rejected in a full cache that had already evicted an ID
C9_RejectedAfterEviction ==
    /\ verdict.id # NoId
    /\ ~verdict.admitted
    /\ max_seen_events = MaxCap
    /\ Len(events) = max_seen_events
    /\ events[1] = verdict.id
    /\ \E j \in IDs : age[j] >= max_seen_events

(***************************************************************************)
(* Properties of the lifecycle.                                            *)
(***************************************************************************)
\* C10: once shutdown was called, eventually the channel is closed, the
\* aggregator has exited, the Shutdown notification was emitted and the
\* running flag is false.
C10_ShutdownCompletes ==
    (shutdownTasks > 0) ~>
        (/\ closed
         /\ tasks = 0
         /\ ~running
         /\ \E k \in 1..Len(bus) : bus[k] = NShutdown)

\* C11: once stop was called on a running pool, eventually the Stop
\* notification was emitted and the running flag is false.
C11_StopCompletes ==
    (phase = "stopCalled") ~>
        (~running /\ \E k \in 1..Len(bus) : bus[k] = NStop)

\* C12: once start has answered a stop, the running flag is true and stays
\* true, and the channel is open.
C12_RestartKeepsRunning ==
    phase = "restarted" => (running /\ ~closed)

\* C13: whatever the interleaving of start calls, at most one aggregator task
\* exists at any time.
C13_AtMostOneTask == tasks <= 1

(***************************************************************************)
(* Properties of the subscription.                                         *)
(***************************************************************************)
\* C14: connect is initiated on a relay only after connect_relay handed it,
\* under the pool's subscription identity, the filter set the pool stored
\* when that connect_relay began (or a newer one a subscribe handed it since):
\* after subscribe(F), add_relay(R), connect, relay R holds F before its
\* connect is initiated.
C14_FiltersBeforeConnect ==
    /\ [](\A u \in URLs :
             connPc[u] = "updated" => given[u] \in {connRead[u], filters})
    /\ [][\A u \in URLs :
             (connPc'[u] = "connected" /\ connPc[u] # "connected") =>
                /\ connPc[u] = "updated"
                /\ given'[u] \in {connRead[u], filters}
                /\ (connRead[u] = filters => given'[u] = filters)]_vars

\* a relay holds F1 and its connect was initiated; the other relay, added
\* after subscribe(F1), holds nothing yet
C14_ReplayedThenConnected ==
    \E u, v \in URLs :
        /\ u # v
        /\ filters = "F1"
        /\ connPc[u] = "connected"
        /\ given[u] = "F1"
        /\ relays[v] # NoRole
        /\ given[v] = NoFilters

\* every subscribe and connect_relay call has returned
AllReturned == \A u \in URLs : connPc[u] \notin {"read", "updated"}

\* C29: once a subscribe call and the add_relay and connect_relay calls of a
\* relay have all returned, however they were interleaved, the filter set
\* the relay holds under the pool's identity is the pool's stored filter set.
C29_RelayHoldsStoredFilters ==
    AllReturned =>
        \A u \in URLs :
            (relays[u] # NoRole /\ connPc[u] \in {"connected", "joined"})
                => given[u] = filters

\* C30: an event-carrying send that has entered, on a pool with relays,
\* eventually returns, given that the per-relay sends return: also after the
\* aggregator was stopped and while the aggregator channel is full.
C30_EventSendReturns ==
    (call.pc \in {"mark", "send"}) ~> (call.pc = "done")

\* C31: for every capacity max_seen_events >= 0 and every cache state, a call
\* of add_event or add_events returns (and so releases the cache lock): no
\* call is left inside its eviction loop.
C31_CacheCallsReturn == spinning = FALSE

====
